---- MODULE Spec2Model ----
(***************************************************************************)
(* Model of the GMRTBOT scripts.  Each script is a separate single-threaded *)
(* program; `prog` names the script a behaviour runs and `pc` is the place  *)
(* of that script's control.                                               *)
(*                                                                         *)
(* Units.  TLA+ has no floating point, so prices are integers in           *)
(* micro-USD (0.30 USD = 300000) and token amounts are whole tokens.  The  *)
(* price inputs are multiples of 100 micro-USD, so price * (1 -/+ 0.02) is *)
(* exact, and bid volumes are even, so total_liquidity * 0.5 is exact.     *)
(***************************************************************************)
EXTENDS Integers, Sequences, FiniteSets, TLC

VARIABLES
    prog,              \* the script that is running
    pc,                \* position in that script
    remaining_tokens,  \* gmrt_sell_bot.py:34 / test_bot.py:35
    active_orders,     \* gmrt_sell_bot.py:38, list of order ids
    current_price,     \* result of get_price() in this cycle, or None
    order_book,        \* result of get_order_book() in this cycle, or None
    mm_orders,         \* result of get_mm_orders() in this cycle
    sell_order,        \* the place_sell_order call of this cycle, or None
    buy_order,         \* the place_buy_order call of this cycle, or None
    cancel_calls,      \* order ids passed to exchange.cancel_order this cycle
    cancel_raised,     \* the ids among them whose cancel_order call raised
    sell_cycles,       \* number of cycles that ran the sell branch
    cycle,             \* test_bot.py: the loop variable of main's for loop
    series,            \* the series a tracker script has stored
    clock,             \* number of times a tracker has read datetime.now()
    snapshot,          \* what docs/market_data.json holds, or None
    fetch_failed,      \* exchanges whose call raised in this iteration of run
    started,           \* an iteration of the script's loop has begun
    slept,             \* time.sleep was called since the last iteration began
    gap_slept          \* every iteration after the first began after a sleep

vars == <<prog, pc, remaining_tokens, active_orders, current_price, order_book,
          mm_orders, sell_order, buy_order, cancel_calls, cancel_raised,
          sell_cycles, cycle, series, clock, snapshot, fetch_failed, started,
          slept, gap_slept>>

\* An optional value: None, or Some(x); Val(o) is the x of Some(x).
None == <<>>
Some(x) == <<x>>
Val(o) == o[1]

(***************************************************************************)
(* Program constants of gmrt_sell_bot.py (prices in micro-USD).            *)
(***************************************************************************)
MIN_SELL_PRICE == 300000
FLOOR_PRICE == 240000
LAUNCH_PRICE == 120000
TOTAL_TOKENS == 5000000
DEPTH_PERCENTAGE == 2
BASE_TRADE_AMOUNT == 250000
MM_UID == "20368306"

(***************************************************************************)
(* Bounds of the model.                                                    *)
(***************************************************************************)
MaxBids == 6

\* Last prices the ticker can report; 0 is falsy in `if not current_price`.
Prices == {0, 100000, 120000, 200000, 240000, 270000, 300000, 350000}

\* Volumes of one bid level.
Volumes == {200000, 500000}

\* The volume of every level of the books the main loop is run on.
LoopVolume == 2 * BASE_TRADE_AMOUNT

Min2(a, b) == IF a <= b THEN a ELSE b
Max2(a, b) == IF a >= b THEN a ELSE b

\* sell_cycles counts up to one more than the cycles the inventory allows for.
CycleCap == TOTAL_TOKENS \div BASE_TRADE_AMOUNT + 1

\* `not current_price`: None and 0 are falsy.
NotPrice(o) == o = None \/ Val(o) = 0

\* `not order_book`: None is falsy; the dict ccxt returns has keys, so is truthy.
NotBook(o) == o = None

\* s[:n]
Take(s, n) == SubSeq(s, 1, Min2(n, Len(s)))

\* sum([bid[1] for bid in bids]); a bid is <<price, volume>>, so bid[1] of the
\* source (0-based) is the second component.
RECURSIVE SumVolumes(_)
SumVolumes(bids) ==
    IF bids = <<>> THEN 0 ELSE Head(bids)[2] + SumVolumes(Tail(bids))

\* x * 0.5
Half(x) == x \div 2

\* Variant: every bid level is summed, not the first five.
get_dynamic_trade_amount_AllLevels(book, remaining) ==
    Min2(remaining, Max2(BASE_TRADE_AMOUNT, Half(SumVolumes(book.bids))))

\* Variant: the amount is not capped by remaining_tokens.
get_dynamic_trade_amount_Uncapped(book, remaining) ==
    Max2(BASE_TRADE_AMOUNT, Half(SumVolumes(Take(book.bids, 5))))

get_dynamic_trade_amount(book, remaining) ==
    LET bids == Take(book.bids, 5)
        total_liquidity == SumVolumes(bids)
    IN  Min2(remaining, Max2(BASE_TRADE_AMOUNT, Half(total_liquidity)))

\* current_price * (1 - DEPTH_PERCENTAGE) and current_price * (1 + DEPTH_PERCENTAGE)
min_depth_price(price) == (price * (100 - DEPTH_PERCENTAGE)) \div 100
max_depth_price(price) == (price * (100 + DEPTH_PERCENTAGE)) \div 100

\* min(prices, default=d)
MinOf(S, d) ==
    IF S = {} THEN d ELSE CHOOSE y \in S : \A z \in S : y <= z

(***************************************************************************)
(* Inputs from the exchange.                                               *)
(***************************************************************************)
\* A bid is <<price, volume>>; the price of a level plays no part in the code.
BidPrice(i) == 290000 - 1000 * i
BookOf(vs) == [bids |-> [i \in 1..Len(vs) |-> <<BidPrice(i), vs[i]>>]]
\* Every book of up to MaxBids levels with volumes in Volumes.
AllBooks == {BookOf(vs) : vs \in UNION {[1..n -> Volumes] : n \in 0..MaxBids}}

\* The numbers of levels of the books the loops are run on: an empty book,
\* a book of fewer than five levels and a book of more than five.
LoopLevels == {0, 4, MaxBids}

\* The books the loops are run on: LoopVolume at every level.
OrderBooks == {BookOf([i \in 1..n |-> LoopVolume]) : n \in LoopLevels}

\* Open orders exchange.fetch_open_orders can report.
OpenOrderPool ==
    { [user |-> MM_UID, side |-> "buy", price |-> 300000],
      [user |-> MM_UID, side |-> "buy", price |-> 400000],
      [user |-> MM_UID, side |-> "sell", price |-> 200000],
      [user |-> "other", side |-> "buy", price |-> 100000] }

\* get_mm_orders on a successful fetch: the orders of the market maker.
FilterMM(all_orders) == {o \in all_orders : o.user = MM_UID}

\* An order id the exchange hands out: one not among the tracked ones.
NewId(active) ==
    CHOOSE n \in 1..(Len(active) + 1) : \A i \in 1..Len(active) : active[i] # n

(***************************************************************************)
(* gmrt_sell_bot.py: the main trading loop.                                *)
(***************************************************************************)
IsBot == prog = "gmrt_sell_bot"

\* What the trackers store.
Stored == <<series, clock, snapshot, fetch_failed>>

\* What is left alone by the steps that only move control.
BotData == <<remaining_tokens, active_orders, sell_cycles>>
CycleLog == <<mm_orders, sell_order, buy_order, cancel_calls, cancel_raised>>

\* The bookkeeping of "an iteration of the loop begins".
BeginIteration ==
    /\ started' = TRUE
    /\ slept' = FALSE
    /\ gap_slept' = (gap_slept /\ (started => slept))

\* time.sleep(...)
Sleeps == slept' = TRUE /\ UNCHANGED <<started, gap_slept>>

\* The end of a cycle.  The values fetched in it are dead from here on (each is
\* assigned again before it is next read), and the record of the cycle's
\* exchange calls starts empty for the next cycle.
EndCycle ==
    /\ current_price' = None
    /\ order_book' = None
    /\ mm_orders' = {}
    /\ sell_order' = None
    /\ buy_order' = None
    /\ cancel_calls' = <<>>
    /\ cancel_raised' = {}

\* The condition of the main loop.                          (line 110)
\* Variant: the loop goes on with nothing left to sell.
LoopCondition_NonNegative(remaining) == remaining >= 0

LoopCondition(remaining) == remaining > 0

\* while remaining_tokens > 0:                              (line 110)
BotWhile ==
    /\ IsBot /\ pc = "while"
    /\ IF LoopCondition(remaining_tokens)
       THEN pc' = "get_price" /\ BeginIteration
       ELSE pc' = "done" /\ UNCHANGED <<started, slept, gap_slept>>
    /\ UNCHANGED <<prog, Stored, cycle, BotData, current_price, order_book, CycleLog>>

\* current_price = get_price(); the ticker's last price, or None when
\* fetch_ticker raises.                                     (lines 41-50, 111)
BotGetPrice ==
    /\ IsBot /\ pc = "get_price"
    /\ \E p \in {Some(x) : x \in Prices} \cup {None} : current_price' = p
    /\ pc' = IF NotPrice(current_price') THEN "sleep_retry" ELSE "get_order_book"
    /\ UNCHANGED <<prog, Stored, cycle, BotData, order_book, CycleLog, started, slept,
                   gap_slept>>

\* order_book = get_order_book(); None when fetch_order_book raises.
\*                                                          (lines 53-61, 116)
BotGetOrderBook ==
    /\ IsBot /\ pc = "get_order_book"
    /\ \E b \in {Some(x) : x \in OrderBooks} \cup {None} : order_book' = b
    /\ pc' = IF NotBook(order_book') THEN "sleep_retry" ELSE "trade"
    /\ UNCHANGED <<prog, Stored, cycle, BotData, current_price, CycleLog, started, slept,
                   gap_slept>>

\* Variant: the failure path leaves the loop instead of retrying.
BotSleepRetry_Breaks ==
    /\ IsBot /\ pc = "sleep_retry"
    /\ Sleeps
    /\ EndCycle
    /\ pc' = "done"
    /\ UNCHANGED <<prog, Stored, cycle, BotData>>

\* time.sleep(5); continue                                  (lines 113-114, 118-119)
BotSleepRetry ==
    /\ IsBot /\ pc = "sleep_retry"
    /\ Sleeps
    /\ EndCycle
    /\ pc' = "while"
    /\ UNCHANGED <<prog, Stored, cycle, BotData>>

\* Variant: a price equal to MIN_SELL_PRICE does not sell.
SellSignal_Strict(price) == price > MIN_SELL_PRICE

\* The sell decision of a cycle.                            (line 132)
SellSignal(price) == price >= MIN_SELL_PRICE

\* Variant: the floor price is not tested.
BuySignal_NoFloor(price) == price > LAUNCH_PRICE

\* The buy decision of a cycle.                             (line 139)
BuySignal(price) == price > LAUNCH_PRICE /\ price >= FLOOR_PRICE

\* Variant: the sell price is the lower edge of the depth band.
SellPrice_NoFloor(price) == min_depth_price(price)

\* sell_price = max(min_depth_price, MIN_SELL_PRICE)        (line 133)
SellPrice(price) == Max2(min_depth_price(price), MIN_SELL_PRICE)

\* Variant: the market maker's orders are not filtered by side.
BuyPrice_AnySide(price, mm) ==
    Max2(min_depth_price(price),
         MinOf({o.price : o \in mm}, min_depth_price(price)))

\* mm_buy_price and buy_price                               (lines 140-141)
BuyPrice(price, mm) ==
    LET mm_buy_price ==
            MinOf({o.price : o \in {x \in mm : x.side = "buy"}},
                  min_depth_price(price))
    IN  Max2(min_depth_price(price), mm_buy_price)

\* place_sell_order / place_buy_order: the id is tracked unless the exchange
\* call raises.                                             (lines 92-107)
Placed(active, accepted) ==
    IF accepted THEN Append(active, NewId(active)) ELSE active

\* The ids of a list of order ids.
Ids(active) == {active[i] : i \in 1..Len(active)}

\* Variant: the tracked list is not reset after the cancel calls.
AfterCancel_Kept(active) == active

\* active_orders after cancel_active_orders(): the try/except around each
\* cancel_order call lets the loop reach every id, and the list is reset after
\* the loop whatever the calls did.                         (lines 74-82)
AfterCancel(active) == <<>>

\* The rest of a cycle once both fetches succeeded.         (lines 121-145)
BotTrade ==
    /\ IsBot /\ pc = "trade"
    /\ \E all_orders \in SUBSET OpenOrderPool, mm_ok, sell_ok, buy_ok \in BOOLEAN,
          raised \in SUBSET Ids(active_orders) :
         LET price == Val(current_price)
             book == Val(order_book)
             mm == IF mm_ok THEN FilterMM(all_orders) ELSE {}
             sells == SellSignal(price)
             buys == BuySignal(price)
             sell_amount == get_dynamic_trade_amount(book, remaining_tokens)
             remaining1 == IF sells THEN remaining_tokens - sell_amount
                           ELSE remaining_tokens
             buy_amount == get_dynamic_trade_amount(book, remaining1)
             active0 == AfterCancel(active_orders)
             active1 == IF sells THEN Placed(active0, sell_ok) ELSE active0
             active2 == IF buys THEN Placed(active1, buy_ok) ELSE active1
         IN  /\ mm_orders' = mm
             \* cancel_active_orders(): one cancel_order call per tracked id;
             \* a call that raises is logged and changes nothing, and the
             \* list is emptied either way.                 (lines 74-82, 124)
             /\ cancel_calls' = active_orders
             /\ cancel_raised' = raised
             /\ sell_order' = IF sells
                              THEN Some([price |-> SellPrice(price),
                                         amount |-> sell_amount])
                              ELSE None
             /\ buy_order' = IF buys
                             THEN Some([price |-> BuyPrice(price, mm),
                                        amount |-> buy_amount])
                             ELSE None
             /\ remaining_tokens' = remaining1
             /\ active_orders' = active2
             /\ sell_cycles' = IF sells THEN Min2(sell_cycles + 1, CycleCap)
                                ELSE sell_cycles
    /\ pc' = "sleep"
    /\ UNCHANGED <<prog, Stored, cycle, current_price, order_book, started, slept, gap_slept>>

\* time.sleep(5) at the end of the body                     (line 145)
BotSleep ==
    /\ IsBot /\ pc = "sleep"
    /\ Sleeps
    /\ EndCycle
    /\ pc' = "while"
    /\ UNCHANGED <<prog, Stored, cycle, BotData>>

(***************************************************************************)
(* test_bot.py: main.                                                      *)
(***************************************************************************)
IsTestBot == prog = "test_bot"

\* test_cycles of main
TEST_CYCLES == 5

\* The sell amount of test_place_orders.
TEST_SELL_AMOUNT == 250000

\* What the loops other than gmrt_sell_bot's leave alone.
BotOnly == <<active_orders, mm_orders, cancel_calls, cancel_raised, sell_cycles>>

\* for cycle in range(test_cycles):                         (line 80)
TestFor ==
    /\ IsTestBot /\ pc = "for"
    /\ IF cycle < TEST_CYCLES
       THEN /\ pc' = "test_get_price"
            /\ cycle' = cycle + 1
            /\ BeginIteration
            /\ EndCycle
       ELSE /\ pc' = "done"
            /\ UNCHANGED <<cycle, started, slept, gap_slept, current_price,
                           order_book, mm_orders, sell_order, buy_order,
                           cancel_calls, cancel_raised>>
    /\ UNCHANGED <<prog, Stored, remaining_tokens, active_orders,
                   sell_cycles>>

\* current_price = test_get_price(); a falsy price skips the cycle with
\* `continue`.                                            (lines 37-46, 85-88)
TestGetPrice ==
    /\ IsTestBot /\ pc = "test_get_price"
    /\ \E p \in {Some(x) : x \in Prices} \cup {None} : current_price' = p
    /\ pc' = IF NotPrice(current_price') THEN "for" ELSE "test_get_order_book"
    /\ UNCHANGED <<prog, Stored, cycle, remaining_tokens, order_book, sell_order,
                   buy_order, BotOnly, started, slept, gap_slept>>

\* order_book = test_get_order_book(); None skips the cycle with `continue`.
\*                                                          (lines 48-58, 91-94)
TestGetOrderBook ==
    /\ IsTestBot /\ pc = "test_get_order_book"
    /\ \E b \in {Some(x) : x \in OrderBooks} \cup {None} : order_book' = b
    /\ pc' = IF NotBook(order_book') THEN "for" ELSE "test_place_orders"
    /\ UNCHANGED <<prog, Stored, cycle, remaining_tokens, current_price, sell_order,
                   buy_order, BotOnly, started, slept, gap_slept>>

\* Variant: the amount is not capped by what is left.
TestSellAmount_Flat(remaining) == TEST_SELL_AMOUNT

\* sell_amount = min(250000, remaining_tokens)              (line 65)
TestSellAmount(remaining) == Min2(TEST_SELL_AMOUNT, remaining)

\* test_place_orders(price); sell_order and buy_order record the orders it
\* logs as "Would place".                                   (lines 60-71)
test_place_orders(price) ==
    LET sell_amount == TestSellAmount(remaining_tokens)
    IN  /\ IF price >= MIN_SELL_PRICE
           THEN /\ sell_order' = Some([price |-> price, amount |-> sell_amount])
                /\ remaining_tokens' = remaining_tokens - sell_amount
           ELSE UNCHANGED <<sell_order, remaining_tokens>>
        /\ IF price > LAUNCH_PRICE /\ price >= FLOOR_PRICE
           THEN buy_order' = Some([price |-> price, amount |-> TEST_SELL_AMOUNT])
           ELSE UNCHANGED buy_order

\* test_place_orders(current_price) in main.                (line 97)
TestPlaceOrders ==
    /\ IsTestBot /\ pc = "test_place_orders"
    /\ test_place_orders(Val(current_price))
    /\ pc' = "test_sleep"
    /\ UNCHANGED <<prog, Stored, cycle, current_price, order_book, BotOnly, started,
                   slept, gap_slept>>

\* One call of test_place_orders with any price, in any sequence of calls.
\*                                                          (lines 60-71)
TestCall ==
    /\ IsTestBot /\ pc = "test_place_orders"
    /\ \E price \in Prices :
         /\ current_price' = Some(price)
         /\ test_place_orders(price)
    /\ UNCHANGED <<prog, pc, Stored, cycle, order_book, BotOnly, started,
                   slept, gap_slept>>

\* time.sleep(2)                                            (line 99)
TestSleep ==
    /\ IsTestBot /\ pc = "test_sleep"
    /\ Sleeps
    /\ pc' = "for"
    /\ UNCHANGED <<prog, Stored, cycle, remaining_tokens, current_price, order_book,
                   sell_order, buy_order, BotOnly>>

(***************************************************************************)
(* mock_test_bot.py: MockBot.run_simulation and simulate_trade.            *)
(***************************************************************************)
IsMockBot == prog = "mock_test_bot"

\* SIMULATION_CYCLES = 30
SIMULATION_CYCLES == 30

\* "Bot Parameters (from original bot)"                     (lines 24-28)
MOCK_MIN_SELL_PRICE == 300000
MOCK_FLOOR_PRICE == 240000
MOCK_LAUNCH_PRICE == 120000
MOCK_BASE_TRADE_AMOUNT == 250000

\* Variant: a price equal to the minimum does not sell.
MockSellSignal_Strict(price) == price > MOCK_MIN_SELL_PRICE

\* if price >= MIN_SELL_PRICE:                              (line 132)
MockSellSignal(price) == price >= MOCK_MIN_SELL_PRICE

\* if price > LAUNCH_PRICE and price >= FLOOR_PRICE:        (line 147)
MockBuySignal(price) == price > MOCK_LAUNCH_PRICE /\ price >= MOCK_FLOOR_PRICE

\* for i in range(SIMULATION_CYCLES):                       (line 175)
MockRunSimulation ==
    /\ IsMockBot /\ pc = "run_simulation"
    /\ IF cycle < SIMULATION_CYCLES
       THEN /\ pc' = "simulate_trade"
            /\ cycle' = cycle + 1
            /\ BeginIteration
            /\ EndCycle
       ELSE /\ pc' = "done"
            /\ UNCHANGED <<cycle, started, slept, gap_slept, current_price,
                           order_book, mm_orders, sell_order, buy_order,
                           cancel_calls, cancel_raised>>
    /\ UNCHANGED <<prog, Stored, remaining_tokens, active_orders,
                   sell_cycles>>

\* simulate_trade(): the market gives a price; sell_order and buy_order record
\* the trades appended to self.trades.                      (lines 118-165)
MockSimulateTrade ==
    /\ IsMockBot /\ pc = "simulate_trade"
    /\ \E price \in Prices :
         LET sell_amount == Min2(MOCK_BASE_TRADE_AMOUNT, remaining_tokens)
             sells == MockSellSignal(price) /\ sell_amount > 0
             buys == MockBuySignal(price)
             after_sell == IF sells THEN remaining_tokens - sell_amount
                           ELSE remaining_tokens
         IN  /\ current_price' = Some(price)
             /\ sell_order' = IF sells
                              THEN Some([price |-> price, amount |-> sell_amount])
                              ELSE sell_order
             /\ buy_order' = IF buys
                             THEN Some([price |-> price,
                                        amount |-> MOCK_BASE_TRADE_AMOUNT])
                             ELSE buy_order
             /\ remaining_tokens' = IF buys
                                    THEN after_sell + MOCK_BASE_TRADE_AMOUNT
                                    ELSE after_sell
    /\ pc' = "mock_sleep"
    /\ UNCHANGED <<prog, Stored, cycle, order_book, BotOnly, started,
                   slept, gap_slept>>

\* time.sleep(1)                                            (line 178)
MockSleep ==
    /\ IsMockBot /\ pc = "mock_sleep"
    /\ Sleeps
    /\ pc' = "run_simulation"
    /\ UNCHANGED <<prog, Stored, cycle, remaining_tokens, current_price,
                   order_book, sell_order, buy_order, BotOnly>>

\* What the loops that only poll and plot leave alone.
TradeData == <<remaining_tokens, active_orders, current_price, order_book,
               mm_orders, sell_order, buy_order, cancel_calls, cancel_raised,
               sell_cycles, cycle>>

(***************************************************************************)
(* Inputs of the trackers.  The k-th reading of the clock finds the k-th   *)
(* market: a fixed stream of order books and trade lists that runs through *)
(* empty books, books of more than ten levels and empty trade lists.       *)
(***************************************************************************)
TrackerLevels(count, k) ==
    [i \in 1..count |-> <<300000 + 100 * i, 100 * ((i + k) % 3)>>]

TrackerBook(k) ==
    [bids |-> TrackerLevels((5 * k) % 12, k), asks |-> TrackerLevels((7 * k) % 13, k + 1)]

\* exchange.fetch_trades('GMRT/USDT', limit=1)
TrackerTrades(k) ==
    IF k % 4 = 0 THEN <<>> ELSE <<[price |-> 300000 + 100 * (k % 7)]>>

\* sum(level[1] for level in levels[:n]), for n <= len(levels)
RECURSIVE SumFirst(_, _)
SumFirst(levels, n) ==
    IF n = 0 THEN 0 ELSE levels[n][2] + SumFirst(levels, n - 1)

\* sum(level[1] for level in levels[:10])
SumTopTen(levels) == SumFirst(levels, Min2(10, Len(levels)))

\* part / total if total > 0 else 0.5, as <<numerator, denominator>>
PressureRatio(part, total) == IF total > 0 THEN <<part, total>> ELSE <<1, 2>>

\* Variant: the first n elements are kept.
LastN_Oldest(s, n) == SubSeq(s, 1, Min2(n, Len(s)))

\* s[-n:]
LastN(s, n) == IF Len(s) > n THEN SubSeq(s, Len(s) - n + 1, Len(s)) ELSE s

(***************************************************************************)
(* market_tracker.py: MarketTracker.                                       *)
(***************************************************************************)
IsMarketTracker == prog = "market_tracker"

\* max_points of fetch_market_data
max_points == 100

\* The most samples a run of the market tracker stores.
MaxSamples == 102

\* The six series of MarketTracker.__init__.                (lines 34-39)
MarketSeries ==
    [timestamps |-> <<>>, prices |-> <<>>, buy_volumes |-> <<>>,
     sell_volumes |-> <<>>, buy_pressure |-> <<>>, sell_pressure |-> <<>>]

\* The series after fetch_market_data got orderbook and trades at time now:
\* one sample appended to each, then the last max_points kept.  The log lines
\* that follow raise when current_price is None, after the series are stored.
\*                                                          (lines 52-81)
StoreMarketSample(stored, now, orderbook, trades) ==
    LET current_price_ == IF trades # <<>> THEN Some(trades[1].price) ELSE None
        buy_volume == SumTopTen(orderbook.bids)
        sell_volume == SumTopTen(orderbook.asks)
        total_volume == buy_volume + sell_volume
        appended ==
            [timestamps |-> Append(stored.timestamps, now),
             prices |-> Append(stored.prices, current_price_),
             buy_volumes |-> Append(stored.buy_volumes, buy_volume),
             sell_volumes |-> Append(stored.sell_volumes, sell_volume),
             buy_pressure |-> Append(stored.buy_pressure,
                                     PressureRatio(buy_volume, total_volume)),
             sell_pressure |-> Append(stored.sell_pressure,
                                      PressureRatio(sell_volume, total_volume))]
    IN  IF Len(appended.timestamps) > max_points
        THEN [key \in DOMAIN appended |-> LastN(appended[key], max_points)]
        ELSE appended

\* update_plot, called by FuncAnimation every 5 seconds: fetch_market_data
\* stores a sample, or stores nothing when a fetch raises. (lines 45-102, 135)
MarketUpdatePlot ==
    /\ IsMarketTracker /\ pc = "update_plot"
    /\ \E fetched \in BOOLEAN :
         IF fetched /\ clock < MaxSamples
         THEN /\ clock' = clock + 1
              /\ \E orderbook \in {TrackerBook(clock + 1)},
                    trades \in {TrackerTrades(clock + 1)} :
                   series' = StoreMarketSample(series, clock + 1, orderbook,
                                               trades)
         ELSE UNCHANGED <<series, clock>>
    /\ UNCHANGED <<prog, pc, snapshot, fetch_failed, TradeData, started, slept,
                   gap_slept>>

(***************************************************************************)
(* multi_exchange_tracker.py: MultiExchangeTracker.run.                    *)
(***************************************************************************)
IsMultiTracker == prog = "multi_exchange_tracker"

\* The most samples a run of the multi-exchange tracker stores.
MaxTrackerReadings == 3

\* max_points of fetch_exchange_data
multi_max_points == 100

\* The series of one exchange in MultiExchangeTracker.__init__. (lines 46-66)
MultiSeries ==
    [timestamps |-> <<>>, prices |-> <<>>, bids_prices |-> <<>>,
     bids_volumes |-> <<>>, asks_prices |-> <<>>, asks_volumes |-> <<>>,
     buy_pressure |-> <<>>, sell_pressure |-> <<>>]

\* The order of two levels under sorted(..., key=lambda x: x[0], reverse=...).
Before(a, b, reverse) == IF reverse THEN a[1] > b[1] ELSE a[1] < b[1]

\* sorted(levels, key=lambda x: x[0], reverse=reverse), a stable sort: the
\* level at position i goes to the place after the levels that come before it
\* and the earlier levels of the same price.
sorted(levels, reverse) ==
    LET n == Len(levels)
        place(i) ==
            1 + Cardinality({j \in 1..n :
                               \/ Before(levels[j], levels[i], reverse)
                               \/ levels[j][1] = levels[i][1] /\ j < i})
    IN  [k \in 1..n |-> levels[CHOOSE i \in 1..n : place(i) = k]]

\* Variant: the timestamp is stored before the exchange is called.
ExchangeCallRaised_Stamped(data, now) ==
    [data EXCEPT !.timestamps = Append(@, now)]

\* fetch_order_book or fetch_trades raises: the except branch logs and
\* returns False, and nothing has been stored yet.         (lines 82-83, 130-132)
ExchangeCallRaised(data, now) == data

\* The series of an exchange after fetch_exchange_data got orderbook and
\* trades at time now.  The log lines that follow raise when current_price is
\* None, after the series are stored.                       (lines 84-118)
StoreExchangeSample(data, now, orderbook, trades) ==
    LET current_price_ == IF trades # <<>> THEN Some(trades[1].price) ELSE None
        bids == sorted(orderbook.bids, TRUE)
        asks == sorted(orderbook.asks, FALSE)
        bid_volume == SumTopTen(bids)
        ask_volume == SumTopTen(asks)
        total_volume == bid_volume + ask_volume
        appended ==
            [timestamps |-> Append(data.timestamps, now),
             prices |-> Append(data.prices, current_price_),
             bids_prices |-> [i \in 1..Len(bids) |-> bids[i][1]],
             bids_volumes |-> [i \in 1..Len(bids) |-> bids[i][2]],
             asks_prices |-> [i \in 1..Len(asks) |-> asks[i][1]],
             asks_volumes |-> [i \in 1..Len(asks) |-> asks[i][2]],
             buy_pressure |-> Append(data.buy_pressure,
                                     PressureRatio(bid_volume, total_volume)),
             sell_pressure |-> Append(data.sell_pressure,
                                      PressureRatio(ask_volume, total_volume))]
    IN  [appended EXCEPT
           !.timestamps = LastN(@, multi_max_points),
           !.prices = LastN(@, multi_max_points),
           !.buy_pressure = LastN(@, multi_max_points),
           !.sell_pressure = LastN(@, multi_max_points)]

\* t.isoformat()
isoformat(t) == <<"iso", t>>

\* The dict save_market_data dumps, without its last_update entries.
\*                                                          (lines 202-215)
market_data(stored) ==
    [name \in {"gateio", "mexc"} |->
        [timestamps |-> [i \in 1..Len(stored[name].timestamps) |->
                            isoformat(stored[name].timestamps[i])],
         prices |-> stored[name].prices,
         volumes |-> stored[name].bids_volumes]]

\* while True:                                              (line 224)
MultiRun ==
    /\ IsMultiTracker /\ pc = "run"
    /\ BeginIteration
    /\ pc' = "fetch_gateio"
    /\ fetch_failed' = {}
    /\ UNCHANGED <<prog, series, clock, snapshot, TradeData>>

\* fetch_exchange_data(exchange, exchange_name): it catches every Exception
\* itself and returns True or False, which run ignores.    (lines 79-132)
fetch_exchange_data(exchange_name) ==
    \E raised \in BOOLEAN :
        /\ raised \/ clock < MaxTrackerReadings
        /\ IF raised
           THEN /\ series' = [series EXCEPT ![exchange_name] =
                                  ExchangeCallRaised(@, clock + 1)]
                /\ fetch_failed' = fetch_failed \cup {exchange_name}
                /\ UNCHANGED clock
           ELSE /\ clock' = clock + 1
                /\ \E orderbook \in {TrackerBook(clock + 1)},
                      trades \in {TrackerTrades(clock + 1)} :
                     series' = [series EXCEPT ![exchange_name] =
                                   StoreExchangeSample(@, clock + 1, orderbook,
                                                       trades)]
                /\ UNCHANGED fetch_failed

\* self.fetch_exchange_data(self.gateio, 'gateio')          (line 226)
MultiFetchGateio ==
    /\ IsMultiTracker /\ pc = "fetch_gateio"
    /\ fetch_exchange_data("gateio")
    /\ pc' = "fetch_mexc"
    /\ UNCHANGED <<prog, snapshot, TradeData, started, slept, gap_slept>>

\* self.fetch_exchange_data(self.mexc, 'mexc')              (line 227)
MultiFetchMexc ==
    /\ IsMultiTracker /\ pc = "fetch_mexc"
    /\ fetch_exchange_data("mexc")
    /\ pc' = "save_market_data"
    /\ UNCHANGED <<prog, snapshot, TradeData, started, slept, gap_slept>>

\* self.save_market_data(): writes the snapshot, or raises (makedirs or open
\* raising leaves the file as it was, a failed dump leaves no valid file).
\*                                                          (lines 201-219, 228)
MultiSave ==
    /\ IsMultiTracker /\ pc = "save_market_data"
    /\ \E raised \in BOOLEAN :
         IF raised
         THEN pc' = "sleep_5" /\ snapshot' \in {snapshot, None}
         ELSE pc' = "sleep_30" /\ snapshot' = Some(market_data(series))
    /\ UNCHANGED <<prog, series, clock, fetch_failed, TradeData, started, slept,
                   gap_slept>>

\* time.sleep(30)                                           (line 229)
MultiSleep30 ==
    /\ IsMultiTracker /\ pc = "sleep_30"
    /\ Sleeps
    /\ pc' = "run"
    /\ UNCHANGED <<prog, Stored, TradeData>>

\* except Exception: ... time.sleep(5)                      (lines 230-232)
MultiSleep5 ==
    /\ IsMultiTracker /\ pc = "sleep_5"
    /\ Sleeps
    /\ pc' = "run"
    /\ UNCHANGED <<prog, Stored, TradeData>>

(***************************************************************************)
(* volume_visualizer.py: VolumeVisualizer.run.                             *)
(***************************************************************************)
IsVisualizer == prog = "volume_visualizer"

\* The results of a call made inside run's try block.
CallResults == {"returns", "raises", "KeyboardInterrupt"}

\* Where run goes after a call in its try block.           (lines 207-215)
AfterCall(result, next) ==
    CASE result = "returns" -> next
      [] result = "raises" -> "sleep_error"
      [] result = "KeyboardInterrupt" -> "stopped"

\* while True:                                              (line 206)
VisualizerRun ==
    /\ IsVisualizer /\ pc = "run"
    /\ BeginIteration
    /\ pc' = "fetch_data"
    /\ UNCHANGED <<prog, Stored, TradeData>>

\* The exchanges, in the order of self.exchanges.           (lines 23-32)
Exchanges == <<"gateio", "mexc">>

ExchangeNames == {Exchanges[i] : i \in DOMAIN Exchanges}

\* create_data_storage()                                    (lines 54-60)
create_data_storage ==
    [timestamps |-> <<>>, volumes |-> <<>>, accumulated_volume |-> <<>>,
     market_share |-> <<>>]

\* The one-minute volumes an exchange's trades add up to.
MinuteVolumes == {0, 100, 500}

\* What fetching one exchange gives: None when the try block raises, else the
\* one-minute volume of the trades.
FetchResults == {None} \cup {Some(v) : v \in MinuteVolumes}

\* What a fetch adds to total_volume.
VolumeOf(fetched) == IF fetched = None THEN 0 ELSE Val(fetched)

\* The most clock readings a run of the visualizer makes.
MaxVolumeReadings == 4

\* max_points of fetch_data
volume_max_points == 100

\* The try block of fetch_data for one exchange.            (lines 67-91)
FetchVolume(data, current_time, fetched) ==
    IF fetched = None THEN data
    ELSE LET volume_1m == Val(fetched)
             accumulated == data.accumulated_volume
         IN  [data EXCEPT
                !.timestamps = Append(@, current_time),
                !.volumes = Append(@, volume_1m),
                !.accumulated_volume =
                    IF accumulated = <<>> THEN <<volume_1m>>
                    ELSE Append(accumulated,
                                accumulated[Len(accumulated)] + volume_1m)]

\* "Keep arrays in sync": pop(0) while longer, append(share) while shorter.
\*                                                          (lines 101-105)
KeepInSync(shares, length, share) ==
    IF Len(shares) > length
    THEN SubSeq(shares, Len(shares) - length + 1, Len(shares))
    ELSE shares \o [i \in 1..(length - Len(shares)) |-> share]

\* The market share step for one exchange; a share volume / total * 100 is
\* the fraction <<100 * volume, total>>.                    (lines 94-107)
MarketShare(data, total_volume) ==
    IF total_volume > 0 /\ data.volumes # <<>>
    THEN LET share == <<100 * data.volumes[Len(data.volumes)], total_volume>>
         IN  [data EXCEPT !.market_share =
                  KeepInSync(Append(@, share), Len(data.timestamps), share)]
    ELSE data

\* fetch_data: each exchange in turn, then the shares, then the trim.
\*                                                          (lines 62-115)
fetch_data(stored, now, fetched) ==
    LET gateio == FetchVolume(stored.gateio, now + 1, fetched.gateio)
        read == IF fetched.gateio = None THEN 0 ELSE 1
        mexc == FetchVolume(stored.mexc, now + read + 1, fetched.mexc)
        total_volume == VolumeOf(fetched.gateio) + VolumeOf(fetched.mexc)
        shared == [gateio |-> MarketShare(gateio, total_volume),
                   mexc |-> MarketShare(mexc, total_volume)]
    IN  [name \in ExchangeNames |->
            [key \in DOMAIN shared[name] |->
                LastN(shared[name][key], volume_max_points)]]

\* How many times fetch_data read the clock.
Readings(fetched) ==
    Cardinality({name \in ExchangeNames : fetched[name] # None})

\* self.fetch_data(): when it returns it has stored what the exchanges gave;
\* an interrupt or an error ends it with the series as they were.
\*                                                          (lines 62-115, 208)
VisualizerFetchData ==
    /\ IsVisualizer /\ pc = "fetch_data"
    /\ \E r \in CallResults, fetched \in [ExchangeNames -> FetchResults] :
         /\ clock + Readings(fetched) <= MaxVolumeReadings
         /\ pc' = AfterCall(r, "save_data")
         /\ IF r = "returns"
            THEN /\ series' = fetch_data(series, clock, fetched)
                 /\ clock' = clock + Readings(fetched)
            ELSE UNCHANGED <<series, clock>>
    /\ UNCHANGED <<prog, snapshot, fetch_failed, TradeData, started, slept,
                   gap_slept>>

\* self.save_data()                                         (lines 181-199, 209)
VisualizerSaveData ==
    /\ IsVisualizer /\ pc = "save_data"
    /\ \E r \in CallResults : pc' = AfterCall(r, "sleep")
    /\ UNCHANGED <<prog, Stored, TradeData, started, slept, gap_slept>>

\* time.sleep(5), which a KeyboardInterrupt cuts short.     (lines 210-212)
VisualizerSleep ==
    /\ IsVisualizer /\ pc = "sleep"
    /\ \E interrupted \in BOOLEAN :
         IF interrupted
         THEN pc' = "stopped" /\ UNCHANGED <<started, slept, gap_slept>>
         ELSE pc' = "run" /\ Sleeps
    /\ UNCHANGED <<prog, Stored, TradeData>>

\* except Exception: ... time.sleep(5)                      (lines 213-215)
VisualizerSleepError ==
    /\ IsVisualizer /\ pc = "sleep_error"
    /\ \E interrupted \in BOOLEAN :
         IF interrupted
         THEN pc' = "stopped" /\ UNCHANGED <<started, slept, gap_slept>>
         ELSE pc' = "run" /\ Sleeps
    /\ UNCHANGED <<prog, Stored, TradeData>>

(***************************************************************************)
(* pythonanywhere_deploy.py: main and run_bot.                             *)
(***************************************************************************)
IsDeploy == prog = "pythonanywhere_deploy"

\* while True:                                              (line 34)
DeployMain ==
    /\ IsDeploy /\ pc = "main"
    /\ BeginIteration
    /\ pc' = "run_bot"
    /\ UNCHANGED <<prog, Stored, TradeData>>

\* run_bot(): the import, WhaleTracker() and tracker.run() return, raise an
\* Exception (caught in run_bot, which then sleeps) or are interrupted
\* (caught in main, which breaks).                 (lines 17-27, 35-39)
DeployRunBot ==
    /\ IsDeploy /\ pc = "run_bot"
    /\ \E r \in CallResults :
         pc' = CASE r = "returns" -> "main"
                 [] r = "raises" -> "sleep_crashed"
                 [] r = "KeyboardInterrupt" -> "stopped"
    /\ UNCHANGED <<prog, Stored, TradeData, started, slept, gap_slept>>

\* time.sleep(60) in run_bot's handler                      (lines 28-29)
DeploySleepCrashed ==
    /\ IsDeploy /\ pc = "sleep_crashed"
    /\ \E interrupted \in BOOLEAN :
         IF interrupted
         THEN pc' = "stopped" /\ UNCHANGED <<started, slept, gap_slept>>
         ELSE pc' = "main" /\ Sleeps
    /\ UNCHANGED <<prog, Stored, TradeData>>

Programs ==
    {"gmrt_sell_bot", "test_bot", "multi_exchange_tracker", "volume_visualizer",
     "pythonanywhere_deploy", "market_tracker", "mock_test_bot"}

\* What a script has stored when it starts.
InitialSeries(program) ==
    CASE program = "market_tracker" -> MarketSeries
      [] program = "multi_exchange_tracker" ->
            [name \in {"gateio", "mexc"} |-> MultiSeries]
      [] program = "volume_visualizer" ->
            [name \in ExchangeNames |-> create_data_storage]
      [] OTHER -> <<>>

\* The first statement of each script's loop.
EntryPoint(program) ==
    CASE program = "gmrt_sell_bot" -> "while"
      [] program = "test_bot" -> "for"
      [] program = "multi_exchange_tracker" -> "run"
      [] program = "volume_visualizer" -> "run"
      [] program = "pythonanywhere_deploy" -> "main"
      [] program = "market_tracker" -> "update_plot"
      [] program = "mock_test_bot" -> "run_simulation"

Init ==
    /\ prog \in Programs
    /\ pc = EntryPoint(prog)
    /\ remaining_tokens = TOTAL_TOKENS
    /\ active_orders = <<>>
    /\ current_price = None
    /\ order_book = None
    /\ mm_orders = {}
    /\ sell_order = None
    /\ buy_order = None
    /\ cancel_calls = <<>>
    /\ cancel_raised = {}
    /\ sell_cycles = 0
    /\ cycle = 0
    /\ series = InitialSeries(prog)
    /\ clock = 0
    /\ snapshot = None
    /\ fetch_failed = {}
    /\ started = FALSE
    /\ slept = FALSE
    /\ gap_slept = TRUE

Next ==
    \/ BotWhile
    \/ BotGetPrice
    \/ BotGetOrderBook
    \/ BotSleepRetry
    \/ BotTrade
    \/ BotSleep
    \/ TestFor
    \/ TestGetPrice
    \/ TestGetOrderBook
    \/ TestPlaceOrders
    \/ TestSleep
    \/ MultiRun
    \/ MultiFetchGateio
    \/ MultiFetchMexc
    \/ MultiSave
    \/ MultiSleep30
    \/ MultiSleep5
    \/ VisualizerRun
    \/ VisualizerFetchData
    \/ VisualizerSaveData
    \/ VisualizerSleep
    \/ VisualizerSleepError
    \/ DeployMain
    \/ DeployRunBot
    \/ DeploySleepCrashed
    \/ MarketUpdatePlot
    \/ MockRunSimulation
    \/ MockSimulateTrade
    \/ MockSleep

Spec == Init /\ [][Next]_vars

\* The interpreter always runs the script's next statement.
FairSpec == Spec /\ WF_vars(Next)

(***************************************************************************)
(* get_dynamic_trade_amount as a function of its inputs: the bot is put    *)
(* after two successful fetches with any inventory, price and book, and    *)
(* runs the rest of the cycle.                                             *)
(***************************************************************************)
SizeRemaining == {100000, 250000, 300000, 1000000, TOTAL_TOKENS}

SizeInit ==
    /\ prog = "gmrt_sell_bot"
    /\ pc = "trade"
    /\ remaining_tokens \in SizeRemaining
    /\ active_orders = <<>>
    /\ current_price \in {Some(x) : x \in Prices \ {0}}
    /\ order_book \in {Some(b) : b \in AllBooks}
    /\ mm_orders = {}
    /\ sell_order = None
    /\ buy_order = None
    /\ cancel_calls = <<>>
    /\ cancel_raised = {}
    /\ sell_cycles = 0
    /\ cycle = 0
    /\ series = InitialSeries(prog)
    /\ clock = 0
    /\ snapshot = None
    /\ fetch_failed = {}
    /\ started = TRUE
    /\ slept = FALSE
    /\ gap_slept = TRUE

SizeSpec == SizeInit /\ [][BotTrade]_vars

\* test_bot.py as imported, then any sequence of test_place_orders calls.
CallsInit ==
    /\ prog = "test_bot"
    /\ pc = "test_place_orders"
    /\ remaining_tokens = TOTAL_TOKENS
    /\ active_orders = <<>>
    /\ current_price = None
    /\ order_book = None
    /\ mm_orders = {}
    /\ sell_order = None
    /\ buy_order = None
    /\ cancel_calls = <<>>
    /\ cancel_raised = {}
    /\ sell_cycles = 0
    /\ cycle = 0
    /\ series = InitialSeries(prog)
    /\ clock = 0
    /\ snapshot = None
    /\ fetch_failed = {}
    /\ started = TRUE
    /\ slept = FALSE
    /\ gap_slept = TRUE

CallsSpec == CallsInit /\ [][TestCall]_vars

(***************************************************************************)
(* Properties.                                                             *)
(***************************************************************************)
\* A cycle of gmrt_sell_bot in which both fetches succeeded and the orders
\* have been decided.
Traded == IsBot /\ pc = "sleep"

Sold == IsBot /\ sell_order # None
Bought == IsBot /\ buy_order # None

\* C1: in a cycle where both fetches succeed a sell order is submitted if and
\* only if current_price >= MIN_SELL_PRICE, and no sell order is ever submitted
\* in a cycle whose price is below MIN_SELL_PRICE.
C1_SellIffAtLeastMin ==
    /\ Traded => (Sold <=> Val(current_price) >= MIN_SELL_PRICE)
    /\ Sold => current_price # None /\ Val(current_price) >= MIN_SELL_PRICE

C1_Witness ==
    Traded /\ Sold /\ Val(current_price) = MIN_SELL_PRICE

\* C2: every sell order has a limit price >= MIN_SELL_PRICE, and that price is
\* the larger of 98% of the cycle's price and MIN_SELL_PRICE.
C2_SellPriceFloor ==
    Sold =>
        LET p == Val(current_price)
            sp == Val(sell_order).price
        IN  /\ sp >= MIN_SELL_PRICE
            /\ 100 * sp >= 98 * p
            /\ sp = MIN_SELL_PRICE \/ 100 * sp = 98 * p

C2_Witness ==
    /\ Sold
    /\ Val(sell_order).price = MIN_SELL_PRICE
    /\ 98 * Val(current_price) < 100 * MIN_SELL_PRICE

\* C3: in a cycle where both fetches succeed a buy order is submitted if and
\* only if current_price > LAUNCH_PRICE and current_price >= FLOOR_PRICE, and no
\* buy order is ever submitted at or below the launch price or below the floor.
C3_BuyIffAboveLaunchAndFloor ==
    /\ Traded => (Bought <=> (Val(current_price) > LAUNCH_PRICE
                               /\ Val(current_price) >= FLOOR_PRICE))
    /\ Bought => /\ current_price # None
                 /\ Val(current_price) > LAUNCH_PRICE
                 /\ Val(current_price) >= FLOOR_PRICE

C3_Witness ==
    Traded /\ Bought /\ Val(current_price) = FLOOR_PRICE /\ ~Sold

\* The volume of level i of a book, 0 when the book has no level i.
LevelVolume(book, i) == IF i <= Len(book.bids) THEN book.bids[i][2] ELSE 0

\* The summed volume of the first five bid levels, level by level.
TopFiveVolume(book) ==
    LevelVolume(book, 1) + LevelVolume(book, 2) + LevelVolume(book, 3)
        + LevelVolume(book, 4) + LevelVolume(book, 5)

\* min(remaining, max(BASE_TRADE_AMOUNT, half the top-five volume)), spelled out.
ExpectedAmount(book, remaining) ==
    LET half == TopFiveVolume(book) \div 2
        floor == IF half > BASE_TRADE_AMOUNT THEN half ELSE BASE_TRADE_AMOUNT
    IN  IF remaining < floor THEN remaining ELSE floor

\* remaining_tokens as it was when the cycle's sell amount was computed.
RemainingAtSell ==
    IF sell_order # None THEN remaining_tokens + Val(sell_order).amount
    ELSE remaining_tokens

\* C4: get_dynamic_trade_amount returns min(remaining_tokens,
\* max(BASE_TRADE_AMOUNT, half the summed volume of the first five bid levels))
\* for every order book: levels beyond the fifth never change the result and a
\* book with fewer than five bids is sized from the levels present.
C4_TradeAmount ==
    Traded =>
        /\ Sold => Val(sell_order).amount
                      = ExpectedAmount(Val(order_book), RemainingAtSell)
        /\ Bought => Val(buy_order).amount
                      = ExpectedAmount(Val(order_book), remaining_tokens)

C4_Witness ==
    /\ Traded /\ Sold
    /\ Len(Val(order_book).bids) > 5
    /\ Val(order_book).bids[6][2] # Val(order_book).bids[1][2]
    /\ Val(sell_order).amount > BASE_TRADE_AMOUNT
    /\ Val(sell_order).amount < RemainingAtSell

\* C5: the trade amount is at most 50% of the summed volume of the top five
\* bids, for every order book and every value of remaining_tokens.
C5_AtMostHalfLiquidity ==
    Traded =>
        /\ Sold => 2 * Val(sell_order).amount <= TopFiveVolume(Val(order_book))
        /\ Bought => 2 * Val(buy_order).amount <= TopFiveVolume(Val(order_book))


\* C6: remaining_tokens is never negative; it only ever decreases, by exactly
\* the amount of the cycle's sell order, and a cycle's buy order leaves it alone.
C6_RemainingNeverNegative ==
    /\ [](IsBot => remaining_tokens >= 0)
    /\ [][IsBot =>
            /\ remaining_tokens' <= remaining_tokens
            /\ remaining_tokens' # remaining_tokens =>
                 /\ sell_order' # None
                 /\ Val(sell_order').amount <= remaining_tokens
                 /\ remaining_tokens' = remaining_tokens - Val(sell_order').amount
            /\ (sell_order' = None /\ buy_order' # None) =>
                 remaining_tokens' = remaining_tokens]_vars

C6_Witness ==
    /\ Traded /\ Sold /\ Bought
    /\ remaining_tokens = 0
    /\ Val(sell_order).amount > 0
    /\ Val(sell_order).amount < BASE_TRADE_AMOUNT * 2

\* C7: the main loop exits exactly when remaining_tokens reaches 0: it has
\* exited only if remaining_tokens = 0, it exits at the loop test once
\* remaining_tokens = 0, it runs at most TOTAL_TOKENS / BASE_TRADE_AMOUNT
\* selling cycles, it exits if selling cycles keep happening, and it never exits
\* while no cycle sells.
C7_ExitsWhenSoldOut ==
    /\ []((IsBot /\ pc = "done") => remaining_tokens = 0)
    /\ [](IsBot => sell_cycles <= TOTAL_TOKENS \div BASE_TRADE_AMOUNT)
    /\ [][(IsBot /\ pc = "while") =>
            (pc' = "done" <=> remaining_tokens = 0)]_vars
    /\ ([]<>(Traded /\ Sold) => <>(pc = "done"))
    /\ ([](IsBot /\ ~Sold) => [](pc # "done"))

C7_Witness ==
    IsBot /\ pc = "done" /\ sell_cycles = TOTAL_TOKENS \div BASE_TRADE_AMOUNT

\* A cycle of gmrt_sell_bot in which get_price or get_order_book failed.
FetchFailed == IsBot /\ pc = "sleep_retry"

\* C8: a cycle in which get_price or get_order_book fails cancels no order,
\* submits no order, leaves remaining_tokens and active_orders unchanged, and is
\* followed by the loop test and a new price fetch.
C8_FailedFetchRetries ==
    /\ [](FetchFailed =>
            /\ cancel_calls = <<>> /\ sell_order = None /\ buy_order = None
            /\ current_price = None \/ order_book = None
            /\ remaining_tokens > 0)
    /\ [][IsBot /\ (FetchFailed' \/ FetchFailed) =>
            UNCHANGED <<remaining_tokens, active_orders>>]_vars
    /\ [][FetchFailed' => pc \in {"get_price", "get_order_book"}]_vars
    /\ [][FetchFailed => pc' = "while"]_vars
    /\ [][(IsBot /\ pc = "while" /\ remaining_tokens > 0) =>
            pc' = "get_price"]_vars

C8_Witness ==
    /\ FetchFailed
    /\ current_price # None /\ order_book = None
    /\ Len(active_orders) = 2
    /\ remaining_tokens < TOTAL_TOKENS

\* C9: every iteration of every polling loop passes through a fixed sleep
\* before the next iteration begins, on the failure paths as well as on the
\* success path.
C9_EveryIterationSleeps == gap_slept

\* pythonanywhere_deploy.main alone: run_bot returning normally is followed by
\* the next run_bot call at once.
DeployIterationsSleep == IsDeploy => gap_slept

\* The loops in which every iteration does end with a sleep.
SleepGatedLoops ==
    prog \in {"gmrt_sell_bot", "multi_exchange_tracker", "volume_visualizer"}
        => gap_slept

\* order_price lies in the 2% depth band of the cycle's price.
InDepthBand(order_price, price) ==
    /\ 100 * order_price >= (100 - DEPTH_PERCENTAGE) * price
    /\ 100 * order_price <= (100 + DEPTH_PERCENTAGE) * price

\* C10: every order price lies inside the 2% depth band of the cycle's price,
\* min_depth_price <= order price <= max_depth_price, for sell orders and for
\* buy orders under every set of market-maker open orders.
C10_OrdersInDepthBand ==
    /\ Sold => InDepthBand(Val(sell_order).price, Val(current_price))
    /\ Bought => InDepthBand(Val(buy_order).price, Val(current_price))

\* The number of orders of the cycle that the exchange can have accepted.
OrdersSubmitted ==
    (IF sell_order # None THEN 1 ELSE 0) + (IF buy_order # None THEN 1 ELSE 0)

\* C11: in every cycle with successful fetches each tracked order id gets a
\* cancel attempt, also when an earlier cancel call raised, and active_orders
\* is emptied before the cycle's orders are submitted, so that it holds the
\* ids of this cycle's orders only and never more than two ids.
C11_CancelThenSubmit ==
    /\ [](IsBot => Len(active_orders) <= 2)
    /\ [](Traded => /\ cancel_raised \subseteq Ids(cancel_calls)
                    /\ Len(active_orders) <= OrdersSubmitted)
    /\ [][(IsBot /\ pc = "trade") => cancel_calls' = active_orders]_vars

C11_Witness ==
    /\ Traded
    /\ Len(cancel_calls) = 2
    /\ cancel_raised = {cancel_calls[1]}
    /\ Len(active_orders) = 2

\* The market maker's open buy orders of the cycle.
MMBuys == {o \in mm_orders : o.side = "buy"}

\* C12: the buy price is the larger of min_depth_price and the lowest price
\* among the market maker's open buy orders; it is exactly min_depth_price when
\* the market maker has no buy order or get_mm_orders failed (mm_orders is
\* empty), and the buy order is submitted in that case too.
C12_BuyPriceFollowsMM ==
    Traded =>
        LET p == Val(current_price)
        IN  /\ Bought =>
                 LET bp == Val(buy_order).price
                 IN  IF MMBuys = {}
                     THEN 100 * bp = 98 * p
                     ELSE \E low \in MMBuys :
                            /\ \A o \in MMBuys : low.price <= o.price
                            /\ 100 * bp >= 98 * p
                            /\ bp >= low.price
                            /\ 100 * bp = 98 * p \/ bp = low.price
            /\ (MMBuys = {} /\ p > LAUNCH_PRICE /\ p >= FLOOR_PRICE) => Bought

C12_Witness ==
    /\ Traded /\ Bought
    /\ Cardinality(MMBuys) = 2
    /\ mm_orders # MMBuys
    /\ Val(buy_order).price = 300000
    /\ Val(current_price) = 300000

\* The default of C12 in a reachable cycle: no market-maker buy order, and a buy
\* order at min_depth_price.
C12_DefaultReached ==
    /\ Traded /\ Bought /\ MMBuys = {} /\ mm_orders # {}
    /\ 100 * Val(buy_order).price = 98 * Val(current_price)

\* The names of MarketTracker's six series.
MarketKeys ==
    {"timestamps", "prices", "buy_volumes", "sell_volumes", "buy_pressure",
     "sell_pressure"}

\* C13: after any sequence of fetch_market_data calls the six series have the
\* same length, at most 100, and hold the most recent samples in arrival
\* order: position i of every series belongs to the same sample, and the
\* samples are the last ones that arrived.
C13_SeriesInStep ==
    IsMarketTracker =>
        LET n == Len(series.timestamps)
        IN  /\ DOMAIN series = MarketKeys
            /\ \A key \in MarketKeys : Len(series[key]) = n
            /\ n <= 100
            /\ n = (IF clock < 100 THEN clock ELSE 100)
            /\ \A i \in 1..n :
                 LET k == series.timestamps[i]
                 IN  /\ k = clock - n + i
                     /\ series.prices[i] =
                          (IF TrackerTrades(k) = <<>> THEN None
                           ELSE Some(TrackerTrades(k)[1].price))
                     /\ series.buy_pressure[i] =
                          (IF series.buy_volumes[i] + series.sell_volumes[i] > 0
                           THEN <<series.buy_volumes[i],
                                  series.buy_volumes[i] + series.sell_volumes[i]>>
                           ELSE <<1, 2>>)
                     /\ series.sell_pressure[i][1] + series.buy_pressure[i][1]
                          = series.buy_pressure[i][2]

C13_Witness ==
    /\ IsMarketTracker
    /\ clock = 102
    /\ Len(series.timestamps) = 100
    /\ series.timestamps[1] = 3
    /\ series.prices[2] = None
    /\ series.buy_pressure[100] # <<1, 2>>

\* C14: after every fetch_data call each exchange's market_share series is as
\* long as its timestamps series, whatever the volumes and whichever fetch
\* failed.
C14_ShareInSync ==
    IsVisualizer =>
        \A name \in ExchangeNames :
            Len(series[name].market_share) = Len(series[name].timestamps)

\* The other series of an exchange do stay in step with its timestamps.
VolumesInSync ==
    IsVisualizer =>
        \A name \in ExchangeNames :
            /\ Len(series[name].volumes) = Len(series[name].timestamps)
            /\ Len(series[name].accumulated_volume) = Len(series[name].timestamps)
            /\ Len(series[name].market_share) <= Len(series[name].timestamps)

\* C15: every value in an exchange's market_share series is a percentage
\* between 0 and 100 inclusive.
C15_ShareIsPercentage ==
    IsVisualizer =>
        \A name \in ExchangeNames :
            \A i \in 1..Len(series[name].market_share) :
                LET share == series[name].market_share[i]
                IN  /\ share[2] > 0
                    /\ 0 <= share[1]
                    /\ share[1] <= 100 * share[2]

\* C16: a call of test_place_orders takes min(250000, remaining_tokens) off
\* remaining_tokens when the price is at least MIN_SELL_PRICE and leaves it
\* alone otherwise, whatever the buy signal; remaining_tokens is never
\* negative.
C16_TestSellKeepsNonNegative ==
    /\ [](IsTestBot => remaining_tokens >= 0)
    /\ [][(IsTestBot /\ pc = "test_place_orders") =>
            LET price == Val(current_price')
                taken == IF remaining_tokens < 250000 THEN remaining_tokens
                         ELSE 250000
            IN  remaining_tokens' =
                   (IF price >= MIN_SELL_PRICE THEN remaining_tokens - taken
                    ELSE remaining_tokens)]_vars

C16_Witness ==
    /\ IsTestBot /\ pc = "test_place_orders"
    /\ remaining_tokens = 0
    /\ sell_order = Some([price |-> 350000, amount |-> 0])
    /\ buy_order = Some([price |-> 270000, amount |-> 250000])
    /\ current_price = Some(270000)

\* What gmrt_sell_bot's loop does with a price and an inventory: the loop body
\* runs while tokens remain, goes on when the price is truthy, and then sells
\* and buys on its two signals.
LoopSubmitsSell(price, remaining) ==
    LoopCondition(remaining) /\ ~NotPrice(Some(price)) /\ SellSignal(price)

LoopSubmitsBuy(price, remaining) ==
    LoopCondition(remaining) /\ ~NotPrice(Some(price)) /\ BuySignal(price)

\* A step that is a call of MockBot.simulate_trade or of test_place_orders.
DecisionStep ==
    \/ IsMockBot /\ pc = "simulate_trade"
    \/ IsTestBot /\ pc = "test_place_orders"

\* C17: with every price, at every inventory they reach, simulate_trade and
\* test_place_orders sell exactly when gmrt_sell_bot's loop would submit a
\* sell order at that price and inventory, and buy exactly when it would
\* submit a buy order.
C17_SameDecisions ==
    [][DecisionStep =>
         LET price == Val(current_price')
         IN  /\ sell_order = None /\ buy_order = None
             /\ sell_order' # None <=> LoopSubmitsSell(price, remaining_tokens)
             /\ buy_order' # None <=> LoopSubmitsBuy(price, remaining_tokens)]_vars

C17_Witness ==
    /\ IsMockBot /\ pc = "mock_sleep"
    /\ current_price = Some(300000)
    /\ sell_order = Some([price |-> 300000, amount |-> 250000])
    /\ buy_order = Some([price |-> 300000, amount |-> 250000])
    /\ remaining_tokens = TOTAL_TOKENS + 250000

\* C18: when the exchange call for one exchange raises in MultiExchangeTracker.run,
\* that exchange's stored series stay as they were, the other exchange is
\* still polled in the same iteration, and save_market_data is still called
\* and writes the snapshot of the stored series.
C18_FailedExchangeIsSkipped ==
    /\ [][(IsMultiTracker /\ pc = "fetch_gateio") =>
            /\ pc' = "fetch_mexc"
            /\ series'.mexc = series.mexc
            /\ "gateio" \in fetch_failed' =>
                  series'.gateio = series.gateio /\ clock' = clock]_vars
    /\ [][(IsMultiTracker /\ pc = "fetch_mexc") =>
            /\ pc' = "save_market_data"
            /\ series'.gateio = series.gateio
            /\ "mexc" \in fetch_failed' =>
                  series'.mexc = series.mexc /\ clock' = clock]_vars
    /\ [][(IsMultiTracker /\ pc = "save_market_data") =>
            /\ series' = series
            /\ pc' \in {"sleep_30", "sleep_5"}
            /\ pc' = "sleep_30" =>
                 /\ snapshot' # None
                 /\ \A name \in {"gateio", "mexc"} :
                      /\ Val(snapshot')[name].prices = series[name].prices
                      /\ Val(snapshot')[name].volumes = series[name].bids_volumes
                      /\ Len(Val(snapshot')[name].timestamps)
                           = Len(series[name].timestamps)
                      /\ \A i \in 1..Len(series[name].timestamps) :
                           Val(snapshot')[name].timestamps[i]
                             = <<"iso", series[name].timestamps[i]>>]_vars

C18_Witness ==
    /\ IsMultiTracker /\ pc = "sleep_30"
    /\ fetch_failed = {"gateio"}
    /\ series.gateio.timestamps = <<1>>
    /\ series.mexc.timestamps = <<2>>
    /\ snapshot # None
    /\ Val(snapshot).gateio.timestamps = <<<<"iso", 1>>>>
    /\ Val(snapshot).mexc.timestamps = <<<<"iso", 2>>>>
    /\ Val(snapshot).mexc.prices = <<Some(300200)>>

====
